---- MODULE Spec2Model ----
(***************************************************************************)
(* Model of the SRE agent's incident decision workflow                     *)
(* (agent/src/workflows/sre_workflow.py, agent/src/api/main.py,            *)
(* agent/src/agents/analysis.py, agent/src/tools/kubernetes.py).           *)
(*                                                                         *)
(* Message contents are sequences of one-character strings, so that        *)
(* Python's `in` (substring test) and str.lower() are computed, not        *)
(* assumed.  Confidence values are kept in tenths (0.8 is 8).              *)
(***************************************************************************)
EXTENDS Integers, Sequences, FiniteSets, TLC

\* ------------------------------------------------------------------------
\* Bounds of the model
\* ------------------------------------------------------------------------
NumRuns == 2          \* /decide requests (process_incident calls) considered
MaxToolCalls == 1     \* tool invocations of the analysis agent within one turn
NumClusterRuns == 1   \* /decide requests considered next to /execute and restart_deployment
MaxTranscript == 2    \* messages of a TaskResult handed directly to the extractor
MaxEvents == 2        \* events handed to the correlator
MaxPods == 2          \* pods of a pod status handed to the correlator

\* ------------------------------------------------------------------------
\* Program constants
\* ------------------------------------------------------------------------
max_messages == 20    \* MaxMessageTermination(max_messages=20)
max_turns == 10       \* RoundRobinGroupChat(..., max_turns=10)
ReasoningChars == 200 \* last_content[:200]

\* ------------------------------------------------------------------------
\* Strings
\* ------------------------------------------------------------------------
UpperCase == <<"A", "B", "C", "D", "E", "F", "G", "H", "I", "J", "K", "L", "M", "N", "O", "P", "Q", "R", "S", "T", "U", "V", "W", "X", "Y", "Z">>
LowerCase == <<"a", "b", "c", "d", "e", "f", "g", "h", "i", "j", "k", "l", "m", "n", "o", "p", "q", "r", "s", "t", "u", "v", "w", "x", "y", "z">>

SENTINEL == <<"T", "E", "R", "M", "I", "N", "A", "T", "E">>
KW_approve == <<"a", "p", "p", "r", "o", "v", "e">>
KW_reject == <<"r", "e", "j", "e", "c", "t">>
KW_error == <<"e", "r", "r", "o", "r">>

TxtInvestigating == <<"S", "t", "i", "l", "l", " ", "i", "n", "v", "e", "s", "t", "i", "g", "a", "t", "i", "n", "g">>
TxtApproveTerminate == <<"a", "p", "p", "r", "o", "v", "e", " ", "a", "n", "d", " ", "T", "E", "R", "M", "I", "N", "A", "T", "E">>
TxtRejected == <<"r", "e", "j", "e", "c", "t", "e", "d", " ", "d", "u", "e", " ", "t", "o", " ", "e", "r", "r", "o", "r">>
TxtLowerSentinel == <<"t", "e", "r", "m", "i", "n", "a", "t", "e">>
TxtMixedSentinel == <<"T", "e", "r", "m", "i", "n", "a", "t", "e">>
TxtUpperApprove == <<"A", "P", "P", "R", "O", "V", "E", "D">>
TxtUpperReject == <<"R", "E", "J", "E", "C", "T">>
TxtUpperError == <<"E", "r", "r", "o", "r">>
TxtTerror == <<"t", "e", "r", "r", "o", "r">>
TxtApproveReject == <<"a", "p", "p", "r", "o", "v", "e", " ", "r", "e", "j", "e", "c", "t">>
TxtRejectSentinel == <<"r", "e", "j", "e", "c", "t", " ", "T", "E", "R", "M", "I", "N", "A", "T", "E">>
TxtDone == <<"d", "o", "n", "e", " ", "T", "E", "R", "M", "I", "N", "A", "T", "E">>
TxtTask == <<"K", "u", "b", "e", "r", "n", "e", "t", "e", "s", " ", "I", "n", "c", "i", "d", "e", "n", "t", " ", "D", "e", "t", "e", "c", "t", "e", "d">>
ErrBoom == <<"b", "o", "o", "m">>
ErrBusy == <<"T", "h", "e", " ", "t", "e", "a", "m", " ", "i", "s", " ", "a", "l", "r", "e", "a", "d", "y", " ", "r", "u", "n", "n", "i", "n", "g">>

\* str.lower() on one character
LowerChar(c) ==
    IF \E i \in 1..Len(UpperCase) : UpperCase[i] = c
    THEN LowerCase[CHOOSE i \in 1..Len(UpperCase) : UpperCase[i] = c]
    ELSE c

\* str.lower()
Lower(s) == [i \in 1..Len(s) |-> LowerChar(s[i])]

\* Python's `sub in s` on strings
Contains(s, sub) ==
    \E i \in 1..(Len(s) - Len(sub) + 1) : SubSeq(s, i, i + Len(sub) - 1) = sub

\* s[:n]
Take(s, n) == SubSeq(s, 1, IF Len(s) < n THEN Len(s) ELSE n)

Last(s) == s[Len(s)]

\* ------------------------------------------------------------------------
\* SREWorkflow._extract_decision
\* ------------------------------------------------------------------------
\* the fixed placeholder action list
ReviewActions_PodLogs ==
    <<[action |-> "check_pod_logs", priority |-> "high"]>>

ReviewActions ==
    << [action |-> "review_team_analysis",
        description |-> "Review the multi-agent team analysis",
        priority |-> "medium"] >>

\* the error dictionary built by process_incident and _extract_decision
ErrorResult(template, arg) ==
    [decision |-> "error", confidence |-> 0, recommended_actions |-> <<>>,
     reasoning |-> [template |-> template, arg |-> arg]]

\* the decision heuristic on the content of the last message
DecisionOf_RejectFirst(last_content) ==
    IF Contains(Lower(last_content), KW_reject) \/ Contains(Lower(last_content), KW_error)
    THEN [decision |-> "reject", confidence |-> 7]
    ELSE IF Contains(last_content, SENTINEL) \/ Contains(Lower(last_content), KW_approve)
    THEN [decision |-> "approve", confidence |-> 8]
    ELSE [decision |-> "human_review", confidence |-> 5]

DecisionOf_SentinelAnyCase(last_content) ==
    IF Contains(Lower(last_content), Lower(SENTINEL)) \/ Contains(Lower(last_content), KW_approve)
    THEN [decision |-> "approve", confidence |-> 8]
    ELSE IF Contains(Lower(last_content), KW_reject) \/ Contains(Lower(last_content), KW_error)
    THEN [decision |-> "reject", confidence |-> 7]
    ELSE [decision |-> "human_review", confidence |-> 5]

DecisionOf_Percent(last_content) ==
    IF Contains(last_content, SENTINEL) \/ Contains(Lower(last_content), KW_approve)
    THEN [decision |-> "approve", confidence |-> 80]
    ELSE IF Contains(Lower(last_content), KW_reject) \/ Contains(Lower(last_content), KW_error)
    THEN [decision |-> "reject", confidence |-> 70]
    ELSE [decision |-> "human_review", confidence |-> 50]

DecisionOf(last_content) ==
    IF Contains(last_content, SENTINEL) \/ Contains(Lower(last_content), KW_approve)
    THEN [decision |-> "approve", confidence |-> 8]
    ELSE IF Contains(Lower(last_content), KW_reject) \/ Contains(Lower(last_content), KW_error)
    THEN [decision |-> "reject", confidence |-> 7]
    ELSE [decision |-> "human_review", confidence |-> 5]

_extract_decision(messages) ==
    IF messages = <<>>
    THEN ErrorResult("No messages in task result", <<>>)
    ELSE LET last_content == Last(messages).content
             d == DecisionOf(last_content)
         IN [decision |-> d.decision,
             confidence |-> d.confidence,
             recommended_actions |-> ReviewActions,
             reasoning |-> [template |-> "Multi-agent team analysis: {}...",
                            arg |-> Take(last_content, ReasoningChars)],
             full_conversation |-> messages]

\* ------------------------------------------------------------------------
\* State
\* ------------------------------------------------------------------------
VARIABLES
    mock_k8s_api,     \* settings.development.mock_k8s_api
    team,             \* the one RoundRobinGroupChat held by the module-level sre_workflow
    pc,               \* per /decide request: "idle", "turn", "done", "raised"
    speaker,          \* per request: the participant whose call is in flight
    transcript,       \* per request: the messages of the run's TaskResult so far
    returned,         \* per request: the dictionaries process_incident has returned
    response,         \* per request: the DecisionResponse bodies /decide has returned
    raised,           \* per request: the exception that left process_incident, or "none"
    cancelled,        \* per request: the awaiting task has been cancelled
    stop_reason,      \* per request: why the team stopped, or "none"
    failure,          \* per request: the participant error that ended the run, or <<>>
    invoked,          \* per request: participant invocations started
    toolCalls,        \* per request: tool invocations made within the call in flight
    blocked,          \* a synchronous cluster call is pending without an answer
    patch_calls,      \* calls of apps_v1.patch_namespaced_deployment made so far
    restart_result,   \* what the last restart_deployment call returned
    last_execute,     \* the last /execute request with its response
    unit              \* the last direct call of a pure helper with its result

vars == <<mock_k8s_api, team, pc, speaker, transcript, returned, response, raised,
          cancelled, stop_reason, failure, invoked, toolCalls, blocked, patch_calls,
          restart_result, last_execute, unit>>

Runs == 1..NumRuns

\* list(self.agents.values()): dictionary order of _create_agents
Participants == <<"analysis_agent", "recommendation_agent">>

RegisteredTools_WithRestart ==
    {"get_pod_status", "get_recent_events", "analyze_symptoms", "restart_deployment"}

\* the tools AnalysisAgent.__init__ registers for the model and for execution
RegisteredTools == {"get_pod_status", "get_recent_events", "analyze_symptoms"}

\* the tools that go to the cluster API
GatewayTools == {"get_pod_status", "get_recent_events", "restart_deployment"}

\* the initial task rendered from namespace, resource and the caller's event_data
TaskContents == {TxtTask, TxtTask \o <<" ">> \o SENTINEL}

\* what a participant may answer
ResponseContents == {TxtInvestigating, TxtDone}

\* what a participant call may raise
ParticipantErrors == {ErrBoom}

Message(source, content) == [source |-> source, content |-> content]

Init ==
    /\ mock_k8s_api \in BOOLEAN
    /\ team = [is_running |-> FALSE, current_turn |-> 0, message_count |-> 0,
               next_speaker_index |-> 1, message_thread |-> <<>>]
    /\ pc = [r \in Runs |-> "idle"]
    /\ speaker = [r \in Runs |-> "none"]
    /\ transcript = [r \in Runs |-> <<>>]
    /\ returned = [r \in Runs |-> <<>>]
    /\ response = [r \in Runs |-> <<>>]
    /\ raised = [r \in Runs |-> "none"]
    /\ cancelled = [r \in Runs |-> FALSE]
    /\ stop_reason = [r \in Runs |-> "none"]
    /\ failure = [r \in Runs |-> <<>>]
    /\ invoked = [r \in Runs |-> 0]
    /\ toolCalls = [r \in Runs |-> 0]
    /\ blocked = FALSE
    /\ patch_calls = {}
    /\ restart_result = <<>>
    /\ last_execute = <<>>
    /\ unit = [op |-> "none"]

\* ------------------------------------------------------------------------
\* The team's termination conditions (SREWorkflow._create_team)
\* ------------------------------------------------------------------------
TextMentioned_Lowered(content) == Contains(content, Lower(SENTINEL))

\* TextMentionTermination("TERMINATE")
TextMentioned(content) == Contains(content, SENTINEL)

StopReason_TextOnly(count, turn, content) ==
    IF TextMentioned(content) THEN "text_match" ELSE "none"

\* MaxMessageTermination(max_messages=20) | TextMentionTermination("TERMINATE"),
\* then the team's max_turns=10; count and turn are the values after the
\* message has been counted
StopReason(count, turn, content) ==
    IF count >= max_messages THEN "max_messages"
    ELSE IF TextMentioned(content) THEN "text_match"
    ELSE IF turn >= max_turns THEN "max_turns"
    ELSE "none"

\* the team once a run has stopped on a termination condition: the
\* conditions and the turn counter are reset, the thread and the speaker
\* rotation are kept
TeamStopped(thread) ==
    [team EXCEPT !.is_running = FALSE, !.current_turn = 0, !.message_count = 0,
                 !.message_thread = thread]

\* dict.get(key, default)
Get(d, key, default) == IF key \in DOMAIN d THEN d[key] ELSE default

\* the DecisionResponse /decide builds from the dictionary, with the
\* defaults of its .get() calls
DecisionResponse(result, r) ==
    [decision |-> Get(result, "decision", "human_review"),
     confidence |-> Get(result, "confidence", 5),
     recommended_actions |-> Get(result, "recommended_actions", <<>>),
     reasoning |-> Get(result, "reasoning",
                       [template |-> "Multi-agent analysis completed", arg |-> <<>>]),
     correlation_id |-> r]

\* ------------------------------------------------------------------------
\* /decide and SREWorkflow.process_incident
\* ------------------------------------------------------------------------
\* process_incident returns `result` and /decide wraps it in its response
Returns(r, result) ==
    /\ pc' = [pc EXCEPT ![r] = "done"]
    /\ returned' = [returned EXCEPT ![r] = Append(@, result)]
    /\ response' = [response EXCEPT ![r] = Append(@, DecisionResponse(result, r))]

WorkflowFailed_Default(e) ==
    [decision |-> "human_review", confidence |-> 5, recommended_actions |-> <<>>,
     reasoning |-> [template |-> "Multi-agent analysis completed", arg |-> <<>>]]

\* the dictionary of the `except Exception` branch of process_incident
WorkflowFailed(e) == ErrorResult("Workflow failed: {}", e)

\* A /decide request arrives: process_incident renders the task and awaits
\* self.team.run(task).  A team that is already running refuses to run
\* (the ValueError is caught like any other exception); otherwise the task
\* is the first message, the termination conditions see it, and the first
\* speaker is invoked.
Start(r, task) ==
    /\ ~blocked
    /\ pc[r] = "idle"
    /\ IF team.is_running
       THEN /\ Returns(r, WorkflowFailed(ErrBusy))
            /\ UNCHANGED <<team, speaker, transcript, stop_reason, invoked>>
       ELSE LET msgs == <<Message("user", task)>>
                count == team.message_count + 1
                thread == Append(team.message_thread, r)
                reason == StopReason(count, team.current_turn, task)
                i == team.next_speaker_index
            IN /\ transcript' = [transcript EXCEPT ![r] = msgs]
               /\ stop_reason' = [stop_reason EXCEPT ![r] = reason]
               /\ IF reason # "none"
                  THEN /\ team' = TeamStopped(thread)
                       /\ Returns(r, _extract_decision(msgs))
                       /\ UNCHANGED <<speaker, invoked>>
                  ELSE /\ team' = [team EXCEPT !.is_running = TRUE,
                                               !.message_count = count,
                                               !.message_thread = thread,
                                               !.next_speaker_index = (i % Len(Participants)) + 1]
                       /\ speaker' = [speaker EXCEPT ![r] = Participants[i]]
                       /\ invoked' = [invoked EXCEPT ![r] = @ + 1]
                       /\ pc' = [pc EXCEPT ![r] = "turn"]
                       /\ UNCHANGED <<returned, response>>
    /\ UNCHANGED <<mock_k8s_api, cancelled, raised, failure, toolCalls, blocked, patch_calls,
                   restart_result, last_execute, unit>>

\* The participant in flight answers: its message is appended, the
\* termination conditions are evaluated, and either the run stops and the
\* extractor reads the TaskResult or the next speaker is invoked.
Respond(r, content) ==
    /\ ~blocked
    /\ pc[r] = "turn"
    /\ LET msgs == Append(transcript[r], Message(speaker[r], content))
           count == team.message_count + 1
           turn == team.current_turn + 1
           thread == Append(team.message_thread, r)
           reason == StopReason(count, turn, content)
           i == team.next_speaker_index
       IN /\ transcript' = [transcript EXCEPT ![r] = msgs]
          /\ stop_reason' = [stop_reason EXCEPT ![r] = reason]
          /\ IF reason # "none"
             THEN /\ team' = TeamStopped(thread)
                  /\ Returns(r, _extract_decision(msgs))
                  /\ UNCHANGED <<speaker, invoked>>
             ELSE /\ team' = [team EXCEPT !.message_count = count,
                                          !.current_turn = turn,
                                          !.message_thread = thread,
                                          !.next_speaker_index = (i % Len(Participants)) + 1]
                  /\ speaker' = [speaker EXCEPT ![r] = Participants[i]]
                  /\ invoked' = [invoked EXCEPT ![r] = @ + 1]
                  /\ UNCHANGED <<pc, returned, response>>
    /\ toolCalls' = [toolCalls EXCEPT ![r] = 0]
    /\ UNCHANGED <<mock_k8s_api, cancelled, raised, failure, blocked, patch_calls,
                   restart_result, last_execute, unit>>

\* The participant in flight raises: team.run raises, and the `except
\* Exception` branch of process_incident returns the error dictionary.
\* The team is no longer running; its message count, turn counter and
\* thread stay as the failed run left them (nothing calls team.reset()).
Fail(r, e) ==
    /\ ~blocked
    /\ pc[r] = "turn"
    /\ team' = [team EXCEPT !.is_running = FALSE]
    /\ failure' = [failure EXCEPT ![r] = e]
    /\ Returns(r, WorkflowFailed(e))
    /\ toolCalls' = [toolCalls EXCEPT ![r] = 0]
    /\ UNCHANGED <<mock_k8s_api, cancelled, speaker, transcript, raised, stop_reason, invoked,
                   blocked, patch_calls, restart_result, last_execute, unit>>

\* The task awaiting process_incident is cancelled while a participant call
\* is in flight.  The CancellationToken of process_incident is a local that
\* nothing else holds, so the only cancellation is that of the awaiting
\* task: asyncio.CancelledError is a BaseException, which neither `except
\* Exception` of process_incident nor that of /decide catches.
Cancel(r) ==
    /\ ~blocked
    /\ pc[r] = "turn"
    /\ team' = [team EXCEPT !.is_running = FALSE]
    /\ raised' = [raised EXCEPT ![r] = "CancelledError"]
    /\ cancelled' = [cancelled EXCEPT ![r] = TRUE]
    /\ pc' = [pc EXCEPT ![r] = "raised"]
    /\ toolCalls' = [toolCalls EXCEPT ![r] = 0]
    /\ UNCHANGED <<mock_k8s_api, speaker, transcript, returned, response, stop_reason,
                   failure, invoked, blocked, patch_calls, restart_result,
                   last_execute, unit>>

\* ------------------------------------------------------------------------
\* KubernetesTools and the tools of the analysis agent
\* ------------------------------------------------------------------------
\* restart_deployment goes on to read and patch the deployment only past
\* `if self.settings.development.mock_k8s_api or dry_run: return {...}`
RestartReachesCluster(dry_run) == ~(mock_k8s_api \/ dry_run)

\* apps_v1.patch_namespaced_deployment is called when the read before it
\* did not raise
RestartPatches(dry_run, api) == RestartReachesCluster(dry_run) /\ api = "ok"

\* the dictionary restart_deployment returns
RestartResult(dry_run, api) ==
    IF ~RestartReachesCluster(dry_run)
    THEN [operation |-> "restart_deployment", dry_run |-> dry_run,
          status |-> IF ~dry_run THEN "success" ELSE "dry_run_success"]
    ELSE IF api = "ok"
    THEN [operation |-> "restart_deployment", status |-> "success"]
    ELSE [error |-> "Kubernetes API error"]

PatchCall(origin, dry_run) ==
    [origin |-> origin, dry_run |-> dry_run, mock |-> mock_k8s_api]

\* what a tool call can come back with: the mock branches and
\* analyze_symptoms never leave the process; a real cluster call answers,
\* fails (the error is returned as a value), or never answers: no call
\* passes a request timeout and the timeout_seconds settings are read nowhere
ToolOutcomes(t) ==
    IF t \in GatewayTools /\ ~mock_k8s_api THEN {"data", "error", "hang"} ELSE {"data"}

\* The analysis agent, while its turn is in flight, calls one of its
\* registered tools.  The cluster calls are synchronous calls inside async
\* functions: one that never answers holds the event loop.
ToolInvoke(r, t, dry_run, outcome) ==
    /\ ~blocked
    /\ pc[r] = "turn"
    /\ speaker[r] = "analysis_agent"
    /\ toolCalls[r] < MaxToolCalls
    /\ t \in RegisteredTools
    /\ outcome \in ToolOutcomes(t)
    /\ toolCalls' = [toolCalls EXCEPT ![r] = @ + 1]
    /\ blocked' = (outcome = "hang")
    /\ patch_calls' = IF t = "restart_deployment"
                         /\ RestartPatches(dry_run, IF outcome = "data" THEN "ok" ELSE outcome)
                      THEN patch_calls \cup {PatchCall("participant", dry_run)}
                      ELSE patch_calls
    /\ UNCHANGED <<mock_k8s_api, cancelled, team, pc, speaker, transcript, returned, response,
                   raised, stop_reason, failure, invoked, restart_result,
                   last_execute, unit>>

\* KubernetesTools.restart_deployment called directly (no endpoint and no
\* registered tool leads to it)
RestartDeployment(dry_run, api) ==
    /\ ~blocked
    /\ restart_result' = <<RestartResult(dry_run, api)>>
    /\ patch_calls' = IF RestartPatches(dry_run, api)
                      THEN patch_calls \cup {PatchCall("direct", dry_run)}
                      ELSE patch_calls
    /\ UNCHANGED <<mock_k8s_api, cancelled, team, pc, speaker, transcript, returned, response,
                   raised, stop_reason, failure, invoked, toolCalls, blocked,
                   last_execute, unit>>

\* ------------------------------------------------------------------------
\* /execute
\* ------------------------------------------------------------------------
ExecuteRequests ==
    [correlation_id : {"req-1"},
     actions : {<<>>, <<[action |-> "restart_deployment"]>>},
     dry_run : BOOLEAN]

\* the placeholder ExecutionResponse
ExecutionResponse(request) ==
    [correlation_id |-> request.correlation_id, results |-> <<>>,
     success |-> FALSE, rollback_available |-> FALSE]

\* the cluster calls /execute makes for a request: none, the execution of
\* actions is a TODO
ExecuteApplies(request) == {}

Execute(request) ==
    /\ ~blocked
    /\ last_execute' = <<[request |-> request, response |-> ExecutionResponse(request)]>>
    /\ patch_calls' = patch_calls \cup ExecuteApplies(request)
    /\ UNCHANGED <<mock_k8s_api, cancelled, team, pc, speaker, transcript, returned, response,
                   raised, stop_reason, failure, invoked, toolCalls, blocked,
                   restart_result, unit>>

\* ------------------------------------------------------------------------
\* Direct calls of the pure helpers
\* ------------------------------------------------------------------------
ExtractContents ==
    {<<>>, TxtInvestigating, TxtApproveTerminate, TxtRejected, TxtLowerSentinel,
     TxtMixedSentinel, TxtUpperApprove, TxtUpperReject, TxtUpperError, TxtTerror,
     TxtApproveReject, TxtRejectSentinel, TxtDone, TxtTask}

ExtractInputs ==
    UNION {[1..n -> {Message("agent", c) : c \in ExtractContents}] : n \in 0..MaxTranscript}

ExtractCall(messages) ==
    /\ unit' = [op |-> "_extract_decision", messages |-> messages,
                result |-> _extract_decision(messages)]
    /\ UNCHANGED <<mock_k8s_api, cancelled, team, pc, speaker, transcript, returned, response,
                   raised, stop_reason, failure, invoked, toolCalls, blocked,
                   patch_calls, restart_result, last_execute>>

\* ------------------------------------------------------------------------
\* Specifications
\* ------------------------------------------------------------------------
\* the steps of the /decide request r
RunStep(r) ==
    \/ \E task \in TaskContents : Start(r, task)
    \/ \E content \in ResponseContents : Respond(r, content)
    \/ \E e \in ParticipantErrors : Fail(r, e)
    \/ Cancel(r)
    \/ \E t \in RegisteredTools \cup GatewayTools, dry_run \in BOOLEAN,
          outcome \in {"data", "error", "hang"} : ToolInvoke(r, t, dry_run, outcome)

Next == \E r \in Runs : RunStep(r)

Spec == Init /\ [][Next]_vars

\* a participant call that can answer eventually does
FairSpec == Spec /\ \A r \in Runs : WF_vars(\E content \in ResponseContents : Respond(r, content))

\* the workflow next to the operations that face the cluster
NextCluster ==
    \/ \E r \in 1..NumClusterRuns : RunStep(r)
    \/ \E dry_run \in BOOLEAN, api \in {"ok", "ApiException"} : RestartDeployment(dry_run, api)
    \/ \E request \in ExecuteRequests : Execute(request)

SpecCluster == Init /\ [][NextCluster]_vars

NextExtract == \E messages \in ExtractInputs : ExtractCall(messages)

SpecExtract == Init /\ [][NextExtract]_vars

\* ------------------------------------------------------------------------
\* Properties
\* ------------------------------------------------------------------------
Decisions == {"approve", "reject", "human_review", "error"}

Finished(r) == pc[r] \in {"done", "raised"}

\* C1: every process_incident call (and the /decide call around it) that
\* ends has returned exactly one DecisionResult with a decision among
\* approve, reject, human_review and error, a failed run has returned
\* error with confidence 0.0 and no actions, and no exception has reached
\* the caller.
C1_ExactlyOneResult ==
    \A r \in Runs :
        Finished(r) =>
            /\ pc[r] = "done"
            /\ raised[r] = "none"
            /\ Len(returned[r]) = 1
            /\ Len(response[r]) = 1
            /\ returned[r][1].decision \in Decisions
            /\ failure[r] # <<>> =>
                   /\ returned[r][1].decision = "error"
                   /\ returned[r][1].confidence = 0
                   /\ returned[r][1].recommended_actions = <<>>

\* C2: the transcript of a run never holds more than max_messages
\* messages, and a run whose participants are still being invoked has
\* appended fewer than max_messages messages to the initial task, so a run
\* without the sentinel has stopped by the time max_messages messages were
\* appended.
C2_TranscriptBounded ==
    \A r \in Runs :
        /\ Len(transcript[r]) <= max_messages
        /\ pc[r] = "turn" => Len(transcript[r]) - 1 < max_messages

C2_Witness ==
    \E r \in Runs :
        /\ pc[r] = "done"
        /\ stop_reason[r] # "none"
        /\ Len(transcript[r]) > 2
        /\ \A i \in 1..Len(transcript[r]) : ~Contains(transcript[r][i].content, SENTINEL)

\* C3: a message containing the sentinel is the last message of its
\* transcript: the run has stopped with it, no participant was invoked
\* after it, and the extractor read the transcript that ends with it.
C3_SentinelIsLast ==
    \A r \in Runs : \A i \in 1..Len(transcript[r]) :
        Contains(transcript[r][i].content, SENTINEL) =>
            /\ i = Len(transcript[r])
            /\ pc[r] = "done"
            /\ invoked[r] = Len(transcript[r]) - 1
            /\ Len(returned[r]) = 1
            /\ returned[r][1].full_conversation = transcript[r]
            /\ returned[r][1].reasoning.arg = Take(transcript[r][i].content, ReasoningChars)

C3_Witness ==
    \E r \in Runs :
        /\ pc[r] = "done"
        /\ Len(transcript[r]) > 2
        /\ Last(transcript[r]).source # "user"
        /\ Contains(Last(transcript[r]).content, SENTINEL)

\* C4: once a participant call of a run has raised, the run is over with
\* the error dictionary (error, 0.0, no actions, "Workflow failed:
\* {error}"), the failed call was the last invocation, and nothing is
\* appended, invoked or returned for that run afterwards.
C4_FailedState ==
    \A r \in Runs :
        failure[r] # <<>> =>
            /\ pc[r] = "done"
            /\ stop_reason[r] = "none"
            /\ invoked[r] = Len(transcript[r])
            /\ Len(returned[r]) = 1
            /\ returned[r][1].decision = "error"
            /\ returned[r][1].confidence = 0
            /\ returned[r][1].recommended_actions = <<>>
            /\ returned[r][1].reasoning = [template |-> "Workflow failed: {}", arg |-> failure[r]]

C4_FailureIsFinal ==
    /\ []C4_FailedState
    /\ [][\A r \in Runs :
             failure[r] # <<>> =>
                 <<transcript[r], invoked[r], returned[r]>>' = <<transcript[r], invoked[r], returned[r]>>]_vars

C4_Witness ==
    \E r \in Runs :
        /\ failure[r] # <<>>
        /\ Len(transcript[r]) > 2
        /\ \E q \in Runs : q # r /\ pc[q] = "turn"

\* C5: runs are independent: a run never ends in error unless one of its
\* own participant calls raised, and the message thread its participants
\* are given holds only its own messages.
C5_RunsIndependent ==
    \A r \in Runs :
        /\ (pc[r] = "done" /\ returned[r][1].decision = "error") => failure[r] # <<>>
        /\ pc[r] = "turn" => \A i \in 1..Len(team.message_thread) : team.message_thread[i] = r

\* C6: a run whose cancellation was raised ends by returning a
\* DecisionResult with decision error, and no exception leaves
\* process_incident.
C6_CancelledReturnsError ==
    \A r \in Runs :
        cancelled[r] =>
            /\ pc[r] = "done"
            /\ raised[r] = "none"
            /\ Len(returned[r]) = 1
            /\ returned[r][1].decision = "error"

\* C7: a run whose participant or cluster call never answers is ended by
\* a timeout: it eventually returns decision error.
C7_HungCallTimesOut ==
    \A r \in Runs :
        (blocked /\ pc[r] = "turn") ~>
            (pc[r] = "done" /\ returned[r][1].decision = "error")

\* C8: the only calls of patch_namespaced_deployment are those of
\* restart_deployment called directly with dry_run false while the mock
\* flag is off (none comes from a participant's tool or from /execute),
\* and /execute answers success false with no results.
C8_NoClusterMutation ==
    /\ \A p \in patch_calls : p.origin = "direct" /\ ~p.dry_run /\ ~p.mock
    /\ \A i \in 1..Len(last_execute) :
           /\ last_execute[i].response.success = FALSE
           /\ last_execute[i].response.results = <<>>

C8_Witness ==
    /\ patch_calls # {}
    /\ \E r \in Runs : toolCalls[r] > 0
    /\ last_execute # <<>>
    /\ last_execute[1].request.actions # <<>>
    /\ ~last_execute[1].request.dry_run

\* the keyword kw (given in lower case) occurs in s in some letter case
OccursAnyCase(s, kw) ==
    \E i \in 1..Len(s) :
        /\ i + Len(kw) - 1 <= Len(s)
        /\ \A j \in 1..Len(kw) : LowerChar(s[i + j - 1]) = kw[j]

\* the word w occurs in s letter for letter
OccursExactly(s, w) ==
    \E i \in 1..Len(s) :
        /\ i + Len(w) - 1 <= Len(s)
        /\ \A j \in 1..Len(w) : s[i + j - 1] = w[j]

\* the reference function of the extractor, on decision and confidence
ReferenceDecision(messages) ==
    IF Len(messages) = 0
    THEN [decision |-> "error", confidence |-> 0]
    ELSE LET c == messages[Len(messages)].content
         IN CASE OccursExactly(c, SENTINEL) \/ OccursAnyCase(c, KW_approve) ->
                     [decision |-> "approve", confidence |-> 8]
              [] ~(OccursExactly(c, SENTINEL) \/ OccursAnyCase(c, KW_approve))
                   /\ (OccursAnyCase(c, KW_reject) \/ OccursAnyCase(c, KW_error)) ->
                     [decision |-> "reject", confidence |-> 7]
              [] OTHER -> [decision |-> "human_review", confidence |-> 5]

\* the caller-visible part of an extractor result
Visible(result) ==
    <<result.decision, result.confidence, result.recommended_actions, result.reasoning>>

\* C9: for every transcript the extractor's decision and confidence are
\* those of the reference function (empty: error/0.0 with "No messages in
\* task result"; the sentinel TERMINATE or approve in any case: approve/0.8, with
\* precedence; reject or error in any case: reject/0.7; else
\* human_review/0.5), and the result is the one the last message alone
\* gives.
C9_ExtractorReference ==
    unit.op = "_extract_decision" =>
        /\ unit.result.decision = ReferenceDecision(unit.messages).decision
        /\ unit.result.confidence = ReferenceDecision(unit.messages).confidence
        /\ unit.messages = <<>> =>
               /\ unit.result.reasoning.template = "No messages in task result"
               /\ unit.result.recommended_actions = <<>>
        /\ unit.messages # <<>> =>
               Visible(unit.result) = Visible(_extract_decision(<<Last(unit.messages)>>))

C9_Witness ==
    /\ unit.op = "_extract_decision"
    /\ Len(unit.messages) = 2
    /\ unit.messages[1].content = TxtApproveTerminate
    /\ unit.messages[2].content = TxtRejected
    /\ unit.result.decision = "reject"

\* the last message holds the sentinel in another letter case only, and
\* none of the other keywords
SentinelOtherCaseOnly(c) ==
    /\ OccursAnyCase(c, Lower(SENTINEL))
    /\ ~OccursExactly(c, SENTINEL)
    /\ ~OccursAnyCase(c, KW_approve)
    /\ ~OccursAnyCase(c, KW_reject)
    /\ ~OccursAnyCase(c, KW_error)

\* C10 as stated: a last message with the sentinel in another letter case
\* and no other keyword is extracted as approve/0.8.
C10_SentinelAnyCase ==
    (unit.op = "_extract_decision" /\ unit.messages # <<>>) =>
        (SentinelOtherCaseOnly(Last(unit.messages).content) =>
            unit.result.decision = "approve" /\ unit.result.confidence = 8)

\* C10 as amended: approve, reject and error are matched in any letter
\* case, the sentinel letter for letter: a last message with the sentinel
\* in another letter case and no other keyword is extracted as
\* human_review/0.5.
C10_SentinelCaseSensitive ==
    (unit.op = "_extract_decision" /\ unit.messages # <<>>) =>
        LET c == Last(unit.messages).content IN
        /\ OccursAnyCase(c, KW_approve) => unit.result.decision = "approve"
        /\ (OccursAnyCase(c, KW_reject) \/ OccursAnyCase(c, KW_error)) =>
               unit.result.decision \in {"approve", "reject"}
        /\ SentinelOtherCaseOnly(c) =>
               unit.result.decision = "human_review" /\ unit.result.confidence = 5

C10_Witness ==
    /\ unit.op = "_extract_decision"
    /\ unit.messages # <<>>
    /\ Last(unit.messages).content = TxtMixedSentinel
    /\ unit.result.decision = "human_review"

\* the confidence values a DecisionResult can carry, in tenths
ConfidenceValues == {0, 5, 7, 8}

\* C11: every DecisionResult, from the extractor, from the failure path of
\* process_incident or from /decide, has a confidence within [0,1], and
\* the only values are 0.0, 0.5, 0.7 and 0.8.
C11_ConfidenceRange ==
    /\ unit.op = "_extract_decision" =>
           /\ unit.result.confidence \in ConfidenceValues
           /\ unit.result.confidence >= 0 /\ unit.result.confidence <= 10
           /\ DecisionResponse(unit.result, 1).confidence = unit.result.confidence
    /\ \A e \in ParticipantErrors \cup {ErrBusy} :
           /\ WorkflowFailed(e).confidence = 0
           /\ DecisionResponse(WorkflowFailed(e), 1).confidence = 0

C11_Witness ==
    /\ unit.op = "_extract_decision"
    /\ unit.messages # <<>>
    /\ unit.result.confidence = 7
    /\ DecisionResponse(unit.result, 1).confidence = 7

\* ------------------------------------------------------------------------
\* AnalysisAgent._analyze_symptoms
\* ------------------------------------------------------------------------
\* Python values whose type matters: an event's reason is searched (`in`),
\* a pod's restart count is compared (`> 0`), the events argument is
\* measured (len); on None each of these raises TypeError
PyNone == [py |-> "None"]
PyStr(s) == [py |-> "str", v |-> s]
PyInt(n) == [py |-> "int", v |-> n]
PyList(l) == [py |-> "list", v |-> l]

KW_FailedMount == <<"F", "a", "i", "l", "e", "d", "M", "o", "u", "n", "t">>
KW_Failed == <<"F", "a", "i", "l", "e", "d">>
KW_Error == <<"E", "r", "r", "o", "r">>

ReasonFailedMount == <<"F", "a", "i", "l", "e", "d", "M", "o", "u", "n", "t">>
ReasonFailedScheduling == <<"F", "a", "i", "l", "e", "d", "S", "c", "h", "e", "d", "u", "l", "i", "n", "g">>
ReasonSyncError == <<"S", "y", "n", "c", "E", "r", "r", "o", "r">>
ReasonBackOff == <<"B", "a", "c", "k", "O", "f", "f">>
ReasonLowerFailed == <<"f", "a", "i", "l", "e", "d">>

\* EventIssue with the two tests in the other order
EventIssue_FailedFirst(event, reason) ==
    IF Contains(reason, KW_Failed) \/ Contains(reason, KW_Error)
    THEN << [type |-> "general_failure", severity |-> "medium",
             message |-> [fmt |-> "Failure detected: {}", reason |-> reason],
             evidence |-> event] >>
    ELSE IF Contains(reason, KW_FailedMount)
    THEN << [type |-> "storage_issue", severity |-> "high",
             message |-> [fmt |-> "Volume mount failure detected"],
             evidence |-> event] >>
    ELSE << >>

\* the issue appended for one Warning event, as a sequence of zero or one
\* issue; reason is the string event.get("reason", "")
EventIssue(event, reason) ==
    IF Contains(reason, KW_FailedMount)
    THEN << [type |-> "storage_issue", severity |-> "high",
             message |-> [fmt |-> "Volume mount failure detected"],
             evidence |-> event] >>
    ELSE IF Contains(reason, KW_Failed) \/ Contains(reason, KW_Error)
    THEN << [type |-> "general_failure", severity |-> "medium",
             message |-> [fmt |-> "Failure detected: {}", reason |-> reason],
             evidence |-> event] >>
    ELSE << >>

\* EventConfidence that never lowers a confidence already high
EventConfidence_Monotone(reason, confidence) ==
    IF Contains(reason, KW_FailedMount) THEN "high"
    ELSE IF Contains(reason, KW_Failed) \/ Contains(reason, KW_Error)
    THEN (IF confidence = "high" THEN "high" ELSE "medium")
    ELSE confidence

\* the confidence after one Warning event
EventConfidence(reason, confidence) ==
    IF Contains(reason, KW_FailedMount) THEN "high"
    ELSE IF Contains(reason, KW_Failed) \/ Contains(reason, KW_Error) THEN "medium"
    ELSE confidence

\* the loop over the events from position i on; acc holds issues,
\* confidence and whether an exception was raised
RECURSIVE ScanEvents(_, _, _)
ScanEvents(events, i, acc) ==
    IF i > Len(events) \/ acc.raised # "none" THEN acc
    ELSE LET event == events[i]
             reason == Get(event, "reason", PyStr(<<>>))
         IN IF Get(event, "type", "None") # "Warning"
            THEN ScanEvents(events, i + 1, acc)
            ELSE IF reason.py # "str"
            THEN [acc EXCEPT !.raised = "TypeError"]
            ELSE ScanEvents(events, i + 1,
                     [acc EXCEPT !.issues = @ \o EventIssue(event, reason.v),
                                 !.confidence = EventConfidence(reason.v, @)])

\* PodIssues with the restart issue ahead of the phase issue
PodIssues_RestartsFirst(pod, restarts) ==
    (IF restarts > 0
     THEN << [type |-> "pod_restarts", severity |-> "medium",
              message |-> [fmt |-> "Pod {} has {} restarts",
                           name |-> Get(pod, "name", "None"),
                           restarts |-> restarts],
              evidence |-> pod] >>
     ELSE << >>)
    \o
    (IF Get(pod, "phase", "None") # "Running"
     THEN << [type |-> "pod_not_running", severity |-> "high",
              message |-> [fmt |-> "Pod {} is in {} state",
                           name |-> Get(pod, "name", "None"),
                           phase |-> Get(pod, "phase", "None")],
              evidence |-> pod] >>
     ELSE << >>)

\* PodIssues without the test of the restart count
PodIssues_RestartsIgnored(pod, restarts) ==
    IF Get(pod, "phase", "None") # "Running"
    THEN << [type |-> "pod_not_running", severity |-> "high",
             message |-> [fmt |-> "Pod {} is in {} state",
                          name |-> Get(pod, "name", "None"),
                          phase |-> Get(pod, "phase", "None")],
             evidence |-> pod] >>
    ELSE << >>

\* the issues appended for one pod; restarts is the integer
\* pod.get("restarts", 0)
PodIssues(pod, restarts) ==
    (IF Get(pod, "phase", "None") # "Running"
     THEN << [type |-> "pod_not_running", severity |-> "high",
              message |-> [fmt |-> "Pod {} is in {} state",
                           name |-> Get(pod, "name", "None"),
                           phase |-> Get(pod, "phase", "None")],
              evidence |-> pod] >>
     ELSE << >>)
    \o
    (IF restarts > 0
     THEN << [type |-> "pod_restarts", severity |-> "medium",
              message |-> [fmt |-> "Pod {} has {} restarts",
                           name |-> Get(pod, "name", "None"),
                           restarts |-> restarts],
              evidence |-> pod] >>
     ELSE << >>)

\* the loop over pod_status["pods"] from position i on
RECURSIVE ScanPods(_, _, _)
ScanPods(pods, i, acc) ==
    IF i > Len(pods) \/ acc.raised # "none" THEN acc
    ELSE LET pod == pods[i]
             restarts == Get(pod, "restarts", PyInt(0))
         IN IF restarts.py # "int"
            THEN [acc EXCEPT !.raised = "TypeError"]
            ELSE ScanPods(pods, i + 1,
                     [acc EXCEPT !.issues = @ \o PodIssues(pod, restarts.v),
                                 !.confidence = IF Get(pod, "phase", "None") # "Running"
                                                THEN "high" ELSE @])

\* str.rstrip(chars)
RECURSIVE RStrip(_, _)
RStrip(s, chars) ==
    IF s # <<>> /\ s[Len(s)] \in chars THEN RStrip(SubSeq(s, 1, Len(s) - 1), chars) ELSE s

LitFound == <<"F", "o", "u", "n", "d", " ">>
LitIssues == <<" ", "i", "s", "s", "u", "e", "(", "s", ")", ":", " ">>
LitHigh == <<" ", "h", "i", "g", "h", "-", "s", "e", "v", "e", "r", "i", "t", "y", ",", " ">>
LitMedium == <<" ", "m", "e", "d", "i", "u", "m", "-", "s", "e", "v", "e", "r", "i", "t", "y">>
LitPrimary == <<".", " ", "P", "r", "i", "m", "a", "r", "y", " ", "c", "o", "n", "c", "e", "r", "n", ":", " ">>

\* a formatted string is kept as the sequence of its parts: literal text,
\* formatted numbers and the formatted message of an issue
Lit(s) == [lit |-> s]
Num(n) == [num |-> n]

\* summary.rstrip(", ") on the parts: only trailing literal text can end
\* in a comma or a blank
RECURSIVE RStripParts(_)
RStripParts(parts) ==
    IF parts = <<>> \/ "lit" \notin DOMAIN parts[Len(parts)] THEN parts
    ELSE LET stripped == RStrip(parts[Len(parts)].lit, {",", " "})
             front == SubSeq(parts, 1, Len(parts) - 1)
         IN IF stripped = <<>> THEN RStripParts(front) ELSE Append(front, Lit(stripped))

\* len([i for i in issues if i.get("severity") == severity])
CountSeverity(issues, severity) ==
    Cardinality({i \in 1..Len(issues) : issues[i].severity = severity})

NoIssuesSummary == << Lit(<<"N", "o", " ", "s", "i", "g", "n", "i", "f", "i", "c", "a", "n", "t", " ", "i", "s", "s", "u", "e", "s", " ", "d", "e", "t", "e", "c", "t", "e", "d", " ", "i", "n", " ", "t", "h", "e", " ", "a", "n", "a", "l", "y", "s", "i", "s", ".">>) >>

\* AnalysisAgent._generate_summary
_generate_summary(issues) ==
    IF issues = <<>> THEN NoIssuesSummary
    ELSE LET high == CountSeverity(issues, "high")
             medium == CountSeverity(issues, "medium")
             counted == <<Lit(LitFound), Num(Len(issues)), Lit(LitIssues)>>
                        \o (IF high > 0 THEN <<Num(high), Lit(LitHigh)>> ELSE <<>>)
                        \o (IF medium > 0 THEN <<Num(medium), Lit(LitMedium)>> ELSE <<>>)
         IN RStripParts(counted) \o <<Lit(LitPrimary), [msg |-> issues[1].message]>>

StorageSteps ==
    <<"Check PVC status and storage class",
      "Verify storage node availability",
      "Review storage provisioner logs">>

NotRunningSteps ==
    <<"Check pod events and logs",
      "Verify resource limits and requests",
      "Check node capacity and scheduling">>

RestartSteps ==
    <<"Examine container logs for crash reasons",
      "Check resource limits",
      "Review health check configurations">>

GenericSteps ==
    <<"Review recent changes and deployments",
      "Check application logs",
      "Monitor resource usage trends">>

MaxSteps == 5

\* _get_next_steps without the final cut
_get_next_steps_Uncut(issues) ==
    IF issues = <<>> THEN <<"Continue monitoring", "No immediate action required">>
    ELSE LET issue_types == {issues[i].type : i \in 1..Len(issues)}
             steps == (IF "storage_issue" \in issue_types THEN StorageSteps ELSE <<>>)
                      \o (IF "pod_not_running" \in issue_types THEN NotRunningSteps ELSE <<>>)
                      \o (IF "pod_restarts" \in issue_types THEN RestartSteps ELSE <<>>)
         IN IF steps = <<>> THEN GenericSteps ELSE steps

\* AnalysisAgent._get_next_steps
_get_next_steps(issues) ==
    IF issues = <<>> THEN <<"Continue monitoring", "No immediate action required">>
    ELSE LET issue_types == {issues[i].type : i \in 1..Len(issues)}
             steps == (IF "storage_issue" \in issue_types THEN StorageSteps ELSE <<>>)
                      \o (IF "pod_not_running" \in issue_types THEN NotRunningSteps ELSE <<>>)
                      \o (IF "pod_restarts" \in issue_types THEN RestartSteps ELSE <<>>)
         IN Take(IF steps = <<>> THEN GenericSteps ELSE steps, MaxSteps)

\* AnalysisAgent._analyze_symptoms: the AnalysisResult, or the exception
\* that leaves the call
_analyze_symptoms(events, pod_status) ==
    IF events.py # "list" THEN [raised |-> "TypeError"]
    ELSE LET start == [issues |-> <<>>, confidence |-> "low", raised |-> "none"]
             afterEvents == ScanEvents(events.v, 1, start)
             afterPods == IF "pods" \in DOMAIN pod_status
                          THEN ScanPods(pod_status.pods, 1, afterEvents)
                          ELSE afterEvents
         IN IF afterPods.raised # "none" THEN [raised |-> afterPods.raised]
            ELSE [issues_found |-> Len(afterPods.issues),
                  issues |-> afterPods.issues,
                  confidence |-> afterPods.confidence,
                  analysis_summary |-> _generate_summary(afterPods.issues),
                  recommended_next_steps |-> _get_next_steps(afterPods.issues)]

\* ------------------------------------------------------------------------
\* Direct calls of the correlator
\* ------------------------------------------------------------------------
\* an event as _format_event_info and _mock_events shape it
Event(type, reason) == [type |-> type, reason |-> PyStr(reason)]

\* a pod as _format_pod_info and _mock_pod_status shape it
Pod(phase, restarts) == [name |-> "api-7f9", phase |-> phase, restarts |-> PyInt(restarts)]

SeqsUpTo(S, n) == UNION {[1..k -> S] : k \in 0..n}

EventRecords ==
    {Event("Warning", ReasonFailedMount), Event("Warning", ReasonFailedScheduling),
     Event("Warning", ReasonSyncError), Event("Warning", ReasonBackOff),
     Event("Warning", ReasonLowerFailed), Event("Normal", ReasonFailedMount)}

PodRecords == {Pod("Running", 0), Pod("Running", 2), Pod("Pending", 0), Pod("Pending", 2)}

\* the events argument: a list of event records
AnalyzeEvents == {PyList(l) : l \in SeqsUpTo(EventRecords, MaxEvents)}

\* the pod_status argument: what get_pod_status returns for a namespace,
\* for one named pod, or on an API error
AnalyzePodStatus ==
    {[namespace |-> "prod", pods |-> l] : l \in SeqsUpTo(PodRecords, MaxPods)}
    \cup {Pod("Pending", 2), [error |-> "Kubernetes API error"]}

\* events and pods with fields left out or set to None
MalformedEventRecords ==
    {[type |-> "Warning"], [type |-> "Warning", reason |-> PyNone],
     [reason |-> PyStr(ReasonFailedMount)], Event("Warning", ReasonFailedMount)}

MalformedPodRecords ==
    {[name |-> "api-7f9"], [name |-> "api-7f9", phase |-> "Running", restarts |-> PyNone],
     [phase |-> "Pending", restarts |-> PyInt(1)], Pod("Running", 0)}

MalformedEvents ==
    {PyNone} \cup {PyList(l) : l \in SeqsUpTo(MalformedEventRecords, MaxEvents)}

MalformedPodStatus ==
    {[namespace |-> "prod", pods |-> l] : l \in SeqsUpTo(MalformedPodRecords, MaxPods)}
    \cup {PyNone, [error |-> "Kubernetes API error"]}

\* one call of the tool; it keeps no state, so a behaviour holds one call
AnalyzeCall(events, pod_status) ==
    /\ unit.op = "none"
    /\ unit' = [op |-> "_analyze_symptoms", events |-> events, pod_status |-> pod_status,
                result |-> _analyze_symptoms(events, pod_status)]
    /\ UNCHANGED <<mock_k8s_api, cancelled, team, pc, speaker, transcript, returned, response,
                   raised, stop_reason, failure, invoked, toolCalls, blocked,
                   patch_calls, restart_result, last_execute>>

NextAnalyze ==
    \E events \in AnalyzeEvents, pod_status \in AnalyzePodStatus : AnalyzeCall(events, pod_status)

SpecAnalyze == Init /\ [][NextAnalyze]_vars

NextMalformed ==
    \E events \in MalformedEvents, pod_status \in MalformedPodStatus : AnalyzeCall(events, pod_status)

SpecMalformed == Init /\ [][NextMalformed]_vars

\* the call returned an AnalysisResult
Analyzed == unit.op = "_analyze_symptoms" /\ "issues" \in DOMAIN unit.result

\* the events of the call, and its pods when the pod status lists pods
CallEvents == unit.events.v
CallPods == IF "pods" \in DOMAIN unit.pod_status THEN unit.pod_status.pods ELSE <<>>

\* event i is a Warning whose reason contains the keyword
WarningWith(i, keyword) ==
    /\ CallEvents[i].type = "Warning"
    /\ Contains(CallEvents[i].reason.v, keyword)

\* C12: whenever the events hold a Warning whose reason contains
\* "FailedMount", at any position and followed by any other events, the
\* result has confidence high and a storage_issue among its issues.
C12_FailedMountIsHigh ==
    (Analyzed /\ \E i \in 1..Len(CallEvents) : WarningWith(i, KW_FailedMount)) =>
        /\ unit.result.confidence = "high"
        /\ \E k \in 1..Len(unit.result.issues) : unit.result.issues[k].type = "storage_issue"

\* event i is a Warning that writes the confidence
Matches(i) == WarningWith(i, KW_Failed) \/ WarningWith(i, KW_Error)

\* the last event that writes the confidence
LastMatching ==
    CHOOSE i \in 1..Len(CallEvents) :
        Matches(i) /\ \A j \in (i + 1)..Len(CallEvents) : ~Matches(j)

AnyPodNotRunning == \E p \in 1..Len(CallPods) : CallPods[p].phase # "Running"

\* C12: whenever the events hold a Warning whose reason contains
\* "FailedMount", the issues hold a storage_issue; the confidence is high
\* when a pod is not Running or the last Warning that matches "Failed" or
\* "Error" is a FailedMount one, and medium otherwise.
C12_FailedMountLastWins ==
    (Analyzed /\ \E i \in 1..Len(CallEvents) : WarningWith(i, KW_FailedMount)) =>
        /\ \E k \in 1..Len(unit.result.issues) : unit.result.issues[k].type = "storage_issue"
        /\ unit.result.confidence =
               IF AnyPodNotRunning \/ WarningWith(LastMatching, KW_FailedMount)
               THEN "high" ELSE "medium"

C12_Witness ==
    /\ Analyzed
    /\ Len(CallEvents) = 2
    /\ WarningWith(1, KW_FailedMount)
    /\ Matches(2) /\ ~WarningWith(2, KW_FailedMount)
    /\ ~AnyPodNotRunning
    /\ unit.result.confidence = "medium"
    /\ unit.result.issues[1].type = "storage_issue"

AnyPodRestarted == \E p \in 1..Len(CallPods) : CallPods[p].restarts.v > 0

\* every pod is Running with no restarts and no Warning reason holds
\* "Failed" or "Error"
Quiet ==
    /\ ~AnyPodNotRunning
    /\ ~AnyPodRestarted
    /\ \A i \in 1..Len(CallEvents) : ~Matches(i)

\* C13: an input whose pods are all Running with restart count 0 and whose
\* Warning events have no reason containing "Failed" or "Error" yields no
\* issues, issues_found 0 and the no-issues summary; every other input
\* yields a non-empty issue list and another summary.
C13_QuietIffNoIssues ==
    Analyzed =>
        IF Quiet
        THEN /\ unit.result.issues = <<>>
             /\ unit.result.issues_found = 0
             /\ unit.result.analysis_summary = NoIssuesSummary
        ELSE /\ unit.result.issues # <<>>
             /\ unit.result.analysis_summary # NoIssuesSummary

C13_Witness ==
    /\ Analyzed
    /\ Quiet
    /\ Len(CallEvents) = 2 /\ Len(CallPods) = 2
    /\ CallEvents[1].type = "Normal" /\ CallEvents[2].type = "Warning"
    /\ unit.result.issues = <<>>
    /\ unit.result.analysis_summary = NoIssuesSummary

\* the issue types of the result
IssueTypes == {unit.result.issues[k].type : k \in 1..Len(unit.result.issues)}

Reverse(l) == [k \in 1..Len(l) |-> l[Len(l) + 1 - k]]

\* the steps of the issue types present, in the fixed order
StepsInOrder(types) ==
    (IF "storage_issue" \in types THEN StorageSteps ELSE <<>>)
    \o (IF "pod_not_running" \in types THEN NotRunningSteps ELSE <<>>)
    \o (IF "pod_restarts" \in types THEN RestartSteps ELSE <<>>)

\* C14: the next steps are at most 5 and pairwise different; they are the
\* two monitoring entries for an empty issue list, the three generic steps
\* when no issue is a storage_issue, pod_not_running or pod_restarts, and
\* otherwise the steps of the types present in the fixed order, cut to 5,
\* whatever the number and the order of the issues.
C14_NextSteps ==
    Analyzed =>
        LET steps == unit.result.recommended_next_steps
            specific == IssueTypes \cap {"storage_issue", "pod_not_running", "pod_restarts"}
        IN /\ Len(steps) <= 5
           /\ \A a, b \in 1..Len(steps) : steps[a] = steps[b] => a = b
           /\ unit.result.issues = <<>> =>
                  steps = <<"Continue monitoring", "No immediate action required">>
           /\ (unit.result.issues # <<>> /\ specific = {}) =>
                  steps = <<"Review recent changes and deployments",
                            "Check application logs",
                            "Monitor resource usage trends">>
           /\ specific # {} =>
                  /\ \A k \in 1..Len(steps) : steps[k] = StepsInOrder(specific)[k]
                  /\ Len(steps) = IF Len(StepsInOrder(specific)) > 5
                                  THEN 5 ELSE Len(StepsInOrder(specific))
           /\ _get_next_steps(Reverse(unit.result.issues)) = steps

C14_Witness ==
    /\ Analyzed
    /\ IssueTypes = {"storage_issue", "general_failure", "pod_not_running", "pod_restarts"}
    /\ Len(unit.result.recommended_next_steps) = 5
    /\ unit.result.recommended_next_steps[5] = "Verify resource limits and requests"

\* C15: the correlator never raises: whatever section of the input is
\* absent or malformed, the call returns an AnalysisResult, with no pod
\* issue when the pod status has no "pods" key and no event issue when
\* there are no events.
C15_NeverRaises ==
    unit.op = "_analyze_symptoms" =>
        /\ "raised" \notin DOMAIN unit.result
        /\ "issues" \in DOMAIN unit.result
        /\ "pods" \notin DOMAIN unit.pod_status =>
               \A k \in 1..Len(unit.result.issues) :
                   unit.result.issues[k].type \notin {"pod_not_running", "pod_restarts"}
        /\ (unit.events.py = "list" /\ unit.events.v = <<>>) =>
               \A k \in 1..Len(unit.result.issues) :
                   unit.result.issues[k].type \notin {"storage_issue", "general_failure"}

\* ------------------------------------------------------------------------
\* One incident: a run whose analysis agent calls analyze_symptoms
\* ------------------------------------------------------------------------
\* what the gateway hands to the correlator: one FailedMount Warning and
\* one Pending pod with 2 restarts, or the mock data of the gateway
ScenarioEvents ==
    {PyList(<<Event("Warning", ReasonFailedMount)>>),
     PyList(<<Event("Warning", ReasonFailedMount), Event("Normal", ReasonBackOff)>>)}

ScenarioPodStatus ==
    {[namespace |-> "prod", pods |-> <<Pod("Pending", 2)>>],
     [namespace |-> "prod", pods |-> <<Pod("Running", 0), Pod("Pending", 1)>>]}

\* the analysis agent in flight calls the analyze_symptoms tool
ScenarioAnalyze(r) ==
    /\ ~blocked
    /\ pc[r] = "turn"
    /\ speaker[r] = "analysis_agent"
    /\ \E events \in ScenarioEvents, pod_status \in ScenarioPodStatus :
           AnalyzeCall(events, pod_status)

NextScenario == RunStep(1) \/ ScenarioAnalyze(1)

SpecScenario == Init /\ [][NextScenario]_vars

\* the correlator was given one FailedMount Warning and one Pending pod
\* with 2 restarts
ScenarioInput ==
    /\ Analyzed
    /\ CallEvents = <<Event("Warning", ReasonFailedMount)>>
    /\ CallPods = <<Pod("Pending", 2)>>

\* the three issues of the scenario, in order, with confidence high
ScenarioIssues ==
    /\ unit.result.issues_found = 3
    /\ [k \in 1..Len(unit.result.issues) |->
           <<unit.result.issues[k].type, unit.result.issues[k].severity>>]
       = << <<"storage_issue", "high">>, <<"pod_not_running", "high">>,
            <<"pod_restarts", "medium">> >>
    /\ unit.result.confidence = "high"

\* run 1 stopped on a termination condition with a last message that holds
\* none of the extractor's keywords
ScenarioRunUndecided ==
    /\ pc[1] = "done"
    /\ stop_reason[1] # "none"
    /\ Last(transcript[1]).content = TxtInvestigating

\* action and priority of each recommended action
ActionPairs(actions) == [k \in 1..Len(actions) |-> <<actions[k].action, actions[k].priority>>]

\* C16 as stated: the scenario yields the three issues with confidence
\* high, and the DecisionResult of the run is human_review with confidence
\* 0.5 and the recommended action check_pod_logs with priority high.
C16_ScenarioPodLogs ==
    /\ ScenarioInput => ScenarioIssues
    /\ ScenarioRunUndecided =>
           /\ Len(response[1]) = 1
           /\ response[1][1].decision = "human_review"
           /\ response[1][1].confidence = 5
           /\ ActionPairs(response[1][1].recommended_actions) =
                  << <<"check_pod_logs", "high">> >>

\* C16: the scenario yields the three issues with confidence high, and the
\* DecisionResult of a run whose last message holds no keyword is
\* human_review with confidence 0.5 and the fixed recommended action
\* review_team_analysis with priority medium, whatever the correlator found.
C16_ScenarioReviewAction ==
    /\ ScenarioInput => ScenarioIssues
    /\ ScenarioRunUndecided =>
           /\ Len(response[1]) = 1
           /\ response[1][1].decision = "human_review"
           /\ response[1][1].confidence = 5
           /\ ActionPairs(response[1][1].recommended_actions) =
                  << <<"review_team_analysis", "medium">> >>

C16_Witness ==
    /\ ScenarioInput
    /\ ScenarioIssues
    /\ ScenarioRunUndecided
    /\ response[1][1].decision = "human_review"

\* the participant of turn k of a run that starts with the analysis agent
RoundRobinSpeaker(k) == Participants[((k - 1) % Len(Participants)) + 1]

\* the message with turnIndex k (the response of turn k) comes from the
\* participant of turn k, and the participant in flight is the next one
SpeakerOrder(r) ==
    /\ \A k \in 1..(Len(transcript[r]) - 1) :
           transcript[r][k + 1].source = RoundRobinSpeaker(k)
    /\ pc[r] = "turn" => speaker[r] = RoundRobinSpeaker(Len(transcript[r]))

\* invocations of the run that have not been answered
InFlight(r) == invoked[r] - (IF transcript[r] = <<>> THEN 0 ELSE Len(transcript[r]) - 1)

\* a step keeps every message of the transcript and adds at most one
AppendOnly(r) ==
    /\ Len(transcript'[r]) \in {Len(transcript[r]), Len(transcript[r]) + 1}
    /\ \A k \in 1..Len(transcript[r]) : transcript'[r][k] = transcript[r][k]

\* C17: within a run the participants speak one at a time in round-robin
\* order starting with the analysis agent, the response of turn k is the
\* message at turnIndex k, the transcript only grows at its end, and at
\* most one participant invocation of a run is in flight.
C17_RoundRobinOrder ==
    /\ [](\A r \in Runs : SpeakerOrder(r) /\ InFlight(r) \in {0, 1})
    /\ [][\A r \in Runs : AppendOnly(r)]_vars

\* the run stopped on a termination condition
Stopped(r) == pc[r] = "done" /\ stop_reason[r] # "none"

\* no message of the run's transcript holds the sentinel
NoSentinel(r) == \A k \in 1..Len(transcript[r]) : ~TextMentioned(transcript[r][k].content)

\* C18: the reason of a stopped run is the first satisfied condition in
\* the order max_messages, text_match, max_turns; a run without sentinel
\* stops with reason max_turns after exactly max_turns participant turns,
\* that is with max_turns + 1 messages, and no run stops on max_messages.
C18_TenTurnsThenMaxTurns ==
    \A r \in Runs :
        /\ stop_reason[r] # "max_messages"
        /\ Stopped(r) =>
               /\ stop_reason[r] = "text_match" <=> TextMentioned(Last(transcript[r]).content)
               /\ NoSentinel(r) =>
                      /\ stop_reason[r] = "max_turns"
                      /\ Len(transcript[r]) = max_turns + 1
        /\ (pc[r] = "turn" /\ NoSentinel(r)) => Len(transcript[r]) <= max_turns

\* C19: the confidence is high when a pod is not Running; otherwise it is
\* the level of the last Warning whose reason matches (high for
\* "FailedMount", medium for another "Failed" or "Error"); otherwise low.
\* Restarts do not touch it: findings that are all pod_restarts leave
\* it low.
C19_LastWriteWins ==
    Analyzed =>
        /\ unit.result.confidence =
               IF AnyPodNotRunning THEN "high"
               ELSE IF \E i \in 1..Len(CallEvents) : Matches(i)
               THEN (IF WarningWith(LastMatching, KW_FailedMount) THEN "high" ELSE "medium")
               ELSE "low"
        /\ (unit.result.issues # <<>> /\ IssueTypes = {"pod_restarts"}) =>
               unit.result.confidence = "low"

\* the same events in the other order give another confidence
C19_Witness ==
    /\ Analyzed
    /\ Len(CallEvents) = 2
    /\ CallPods # <<>> /\ AnyPodRestarted
    /\ unit.result.confidence = "medium"
    /\ _analyze_symptoms(PyList(Reverse(CallEvents)), unit.pod_status).confidence = "high"

\* the events that yield an issue, in the order of the events
IsMatchingEvent(event) ==
    /\ event.type = "Warning"
    /\ Contains(event.reason.v, KW_Failed) \/ Contains(event.reason.v, KW_Error)

MatchingEvents == SelectSeq(CallEvents, IsMatchingEvent)

\* type and pod of the issues one pod yields, phase before restarts
PodFindings(pod) ==
    (IF pod.phase # "Running" THEN << <<"pod_not_running", pod>> >> ELSE <<>>)
    \o (IF pod.restarts.v > 0 THEN << <<"pod_restarts", pod>> >> ELSE <<>>)

\* the findings of the pods from position i on, in the order of the pods
RECURSIVE PodFindingsFrom(_, _)
PodFindingsFrom(pods, i) ==
    IF i > Len(pods) THEN <<>> ELSE PodFindings(pods[i]) \o PodFindingsFrom(pods, i + 1)

IsNum(part) == "num" \in DOMAIN part

\* the numbers printed in the summary: total, then the severity counts
SummaryNumbers == SelectSeq(unit.result.analysis_summary, IsNum)

\* C20: the issues are in insertion order, event issues first in the order
\* of the events, then pod issues in the order of the pods with
\* pod_not_running before pod_restarts for one pod; issues_found is the
\* length of the list, every severity is high or medium, the counts of the
\* summary add up to issues_found, and the primary concern of the summary
\* is the message of the first issue.
C20_InsertionOrder ==
    Analyzed =>
        LET issues == unit.result.issues
            summary == unit.result.analysis_summary
            e == Len(MatchingEvents)
            findings == PodFindingsFrom(CallPods, 1)
        IN /\ Len(issues) = e + Len(findings)
           /\ \A k \in 1..e :
                  /\ issues[k].type \in {"storage_issue", "general_failure"}
                  /\ issues[k].evidence = MatchingEvents[k]
           /\ \A k \in 1..Len(findings) :
                  <<issues[e + k].type, issues[e + k].evidence>> = findings[k]
           /\ unit.result.issues_found = Len(issues)
           /\ \A k \in 1..Len(issues) : issues[k].severity \in {"high", "medium"}
           /\ issues # <<>> =>
                  /\ SummaryNumbers[1].num = unit.result.issues_found
                  /\ Len(SummaryNumbers) \in {2, 3}
                  /\ unit.result.issues_found =
                         SummaryNumbers[2].num
                         + (IF Len(SummaryNumbers) = 3 THEN SummaryNumbers[3].num ELSE 0)
                  /\ summary[Len(summary) - 1] = Lit(LitPrimary)
                  /\ summary[Len(summary)] = [msg |-> issues[1].message]

C20_Witness ==
    /\ Analyzed
    /\ unit.result.issues_found = 5
    /\ Len(MatchingEvents) = 2
    /\ unit.result.issues[1].type = "general_failure"
    /\ unit.result.issues[3].type = "pod_not_running"
    /\ unit.result.issues[4].type = "pod_restarts"
    /\ unit.result.issues[4].evidence = unit.result.issues[3].evidence
    /\ unit.result.analysis_summary[Len(unit.result.analysis_summary)].msg.fmt
           = "Failure detected: {}"

====
